---- MODULE Spec2Model ----
\* A model of otelkit's provider assembly (package provider), its install-once
\* guard, ShutdownTracerProvider, and the HTTP request middleware.
\*
\* The batch span processor, the tracer provider, the exporters and the global
\* provider slot are OpenTelemetry SDK objects: the model records what otelkit
\* passes to them and when, and nothing about their insides.
EXTENDS Integers, Sequences, FiniteSets, TLC

VARIABLES
    setOnce,        \* sync.Once of package provider: [done, m]
    globalTP,       \* otel's global tracer provider: 0 = none installed, else a provider id
    installLog,     \* history: every id passed to otel.SetTracerProvider by the factory, in order
    providers,      \* the *sdktrace.TracerProvider values built so far, by id
    returned,       \* history: ids whose constructing call has returned to its caller
    inputs,         \* what callers may pass to the factory, and which SDK constructors may fail
    call,           \* per caller goroutine: the NewProvider / NewDefaultProvider call it last made
    req,            \* per HTTP request: the middleware's position and locals
    wire            \* per HTTP request: what the underlying http.ResponseWriter has received

vars == <<setOnce, globalTP, installLog, providers, returned, inputs, call, req, wire>>

provVars == <<setOnce, globalTP, installLog, providers, returned, inputs, call>>
httpVars == <<req, wire>>

-----------------------------------------------------------------------------
\* Bounds

NumCallers == 2
MaxProviders == 3
MaxShutdownCalls == 2
NumRequests == 1
MaxHandlerOps == 2
MaxSpanCalls == 3

Callers == 1..NumCallers
Requests == 1..NumRequests

\* A request the middleware has not seen yet: no span, no responseWriter.
NoSpan == [started |-> FALSE, name |-> "", kind |-> "", attrs |-> {}, remoteParent |-> FALSE,
           provider |-> 0, statusCode |-> 0, ends |-> 0,
           installsAtStart |-> 0, providerShutDown |-> FALSE, reSetup |-> FALSE,
           calls |-> <<>>]
NoReq == [pc |-> "NotStarted", span |-> NoSpan, rwStatus |-> 0, handlerCalls |-> 0,
          spanInCtx |-> FALSE, ops |-> 0, panicked |-> FALSE, log |-> <<>>, produced |-> <<>>]
\* The underlying http.ResponseWriter before anything is written: code 0 is
\* "no header sent".
NoWire == [code |-> 0, headers |-> 0, writes |-> 0, done |-> FALSE, received |-> <<>>]

-----------------------------------------------------------------------------
\* Configuration (internal/config). Durations are in seconds, ratios in hundredths.

DefaultSamplingRatio == 20
DefaultBatchTimeout == 5
DefaultExportTimeout == 30
DefaultMaxExportBatchSize == 512
DefaultMaxQueueSize == 2048
DefaultSamplingType == "probabilistic"
DefaultEnvironment == "development"
DefaultServiceVersion == "1.0.0"
DefaultOTLPExporterEndpoint == "localhost:4317"
DefaultOTLPExporterProtocol == "grpc"

ValidEnvironments == {"development", "staging", "production"}
ValidSamplingTypes == {"probabilistic", "always_on", "always_off"}
ValidOTLPProtocols == {"grpc", "http"}

\* Error values: nil, *ConfigError{Field} and *InitializationError{Component, Cause};
\* cause is the field of the wrapped ConfigError, or "external" for a failure of
\* an SDK constructor.
NoErr == [kind |-> "nil", field |-> "", cause |-> ""]
\* A call that does not return: the runtime panics on a nil pointer dereference.
NilDereference == [kind |-> "panic", field |-> "", cause |-> "nil pointer dereference"]
ConfigError(f) == [kind |-> "ConfigError", field |-> f, cause |-> ""]
InitializationError(c, cause) == [kind |-> "InitializationError", field |-> c, cause |-> cause]

\* A float64 that is not a number: neither below nor above any number.
NaN == 100000
FloatLess(a, b) == a # NaN /\ b # NaN /\ a < b

\* A nil *Config and a nil *ProviderConfig.
NilConfig == [isNil |-> TRUE]
NilProviderConfig == [isNil |-> TRUE]

\* config.NewConfig. The batch fields of Config are left at their zero
\* values; InstanceID is a fresh UUID.
NewConfig(serviceName, serviceVersion) ==
    [ ServiceName          |-> serviceName,
      ServiceVersion       |-> serviceVersion,
      Environment          |-> DefaultEnvironment,
      OTLPExporterEndpoint |-> DefaultOTLPExporterEndpoint,
      OTLPExporterInsecure |-> FALSE,
      OTLPExporterProtocol |-> DefaultOTLPExporterProtocol,
      BatchTimeout         |-> 0,
      ExportTimeout        |-> 0,
      MaxExportBatchSize   |-> 0,
      MaxQueueSize         |-> 0,
      SamplingRatio        |-> DefaultSamplingRatio,
      SamplingType         |-> DefaultSamplingType,
      InstanceID           |-> "generated" ]

\* The process environment: a value per variable name, "" when it is unset.
EnvServiceName == "OTEL_SERVICE_NAME"
EnvServiceVersion == "OTEL_SERVICE_VERSION"
EnvEnvironment == "OTEL_ENVIRONMENT"
EnvOTLPExporterEndpoint == "OTEL_EXPORTER_OTLP_ENDPOINT"
EnvOTLPExporterInsecure == "OTEL_EXPORTER_OTLP_INSECURE"
EnvOTLPExporterProtocol == "OTEL_EXPORTER_OTLP_PROTOCOL"
EnvBatchTimeout == "OTEL_BSP_TIMEOUT"
EnvExportTimeout == "OTEL_EXPORTER_TIMEOUT"
EnvMaxExportBatchSize == "OTEL_BSP_MAX_EXPORT_BATCH_SIZE"
EnvMaxQueueSize == "OTEL_BSP_MAX_QUEUE_SIZE"
EnvSamplingType == "OTEL_TRACES_SAMPLER"
EnvSamplingRatio == "OTEL_TRACES_SAMPLER_ARG"
EnvInstanceID == "OTEL_RESOURCE_ATTRIBUTES_SERVICE_INSTANCE_ID"

EnvNames ==
    { EnvServiceName, EnvServiceVersion, EnvEnvironment, EnvOTLPExporterEndpoint,
      EnvOTLPExporterInsecure, EnvOTLPExporterProtocol, EnvBatchTimeout, EnvExportTimeout,
      EnvMaxExportBatchSize, EnvMaxQueueSize, EnvSamplingType, EnvSamplingRatio, EnvInstanceID }

NoEnv == [k \in EnvNames |-> ""]

DefaultServiceName == "unknown-service"

\* What strconv.Atoi, strconv.ParseBool, strconv.ParseFloat and
\* time.ParseDuration make of the strings that occur as values; every other
\* string is a parse error ("10" is no duration: it has no unit).
IntLiterals == ("100" :> 100) @@ ("0" :> 0)
BoolLiterals == ("true" :> TRUE) @@ ("1" :> TRUE) @@ ("false" :> FALSE)
FloatLiterals == ("0.5" :> 50) @@ ("1.5" :> 150) @@ ("NaN" :> NaN)
DurationLiterals == ("10s" :> 10) @@ ("1m" :> 60)

getEnv(env, key, defaultValue) ==
    IF env[key] # "" THEN env[key] ELSE defaultValue

\* getEnvInt, getEnvBool, getEnvFloat, getEnvDuration: the parsed value of a
\* variable that is set and parses, else the default.
getEnvParsed(env, key, literals, defaultValue) ==
    IF env[key] # "" /\ env[key] \in DOMAIN literals THEN literals[env[key]] ELSE defaultValue

ParseSamplingType(str) ==
    IF str \in ValidSamplingTypes THEN str ELSE DefaultSamplingType

\* config.NewConfigFromEnv.
NewConfigFromEnv(env) ==
    LET cfg == NewConfig(getEnv(env, EnvServiceName, DefaultServiceName),
                         getEnv(env, EnvServiceVersion, DefaultServiceVersion))
    IN  [cfg EXCEPT
            !.Environment = getEnv(env, EnvEnvironment, DefaultEnvironment),
            !.OTLPExporterProtocol = getEnv(env, EnvOTLPExporterProtocol, DefaultOTLPExporterProtocol),
            !.BatchTimeout = getEnvParsed(env, EnvBatchTimeout, DurationLiterals, DefaultBatchTimeout),
            !.ExportTimeout = getEnvParsed(env, EnvExportTimeout, DurationLiterals, DefaultExportTimeout),
            !.MaxExportBatchSize =
                getEnvParsed(env, EnvMaxExportBatchSize, IntLiterals, DefaultMaxExportBatchSize),
            !.MaxQueueSize = getEnvParsed(env, EnvMaxQueueSize, IntLiterals, DefaultMaxQueueSize),
            !.OTLPExporterEndpoint = getEnv(env, EnvOTLPExporterEndpoint, DefaultOTLPExporterEndpoint),
            !.OTLPExporterInsecure = getEnvParsed(env, EnvOTLPExporterInsecure, BoolLiterals, FALSE),
            !.SamplingRatio = getEnvParsed(env, EnvSamplingRatio, FloatLiterals, DefaultSamplingRatio),
            !.SamplingType = ParseSamplingType(getEnv(env, EnvSamplingType, DefaultSamplingType)),
            !.InstanceID = getEnv(env, EnvInstanceID, cfg.InstanceID)]

\* A Validate without the range check on the ratio.
SamplingRatioUnchecked(ratio) == FALSE

\* Validate: c.SamplingRatio < 0 || c.SamplingRatio > 1.
SamplingRatioRejected(ratio) == FloatLess(ratio, 0) \/ FloatLess(100, ratio)

\* (*Config).Validate: the first violated field, in the order of the code.
Validate(c) ==
    IF c.ServiceName = "" THEN ConfigError("ServiceName")
    ELSE IF c.ServiceVersion = "" THEN ConfigError("ServiceVersion")
    ELSE IF c.Environment \notin ValidEnvironments THEN ConfigError("Environment")
    ELSE IF c.OTLPExporterEndpoint = "" THEN ConfigError("OTLPExporterEndpoint")
    ELSE IF SamplingRatioRejected(c.SamplingRatio) THEN ConfigError("SamplingRatio")
    ELSE IF c.SamplingType \notin ValidSamplingTypes THEN ConfigError("SamplingType")
    ELSE IF c.OTLPExporterProtocol \notin ValidOTLPProtocols THEN ConfigError("OTLPExporterProtocol")
    ELSE NoErr

\* provider.NewProviderConfig followed by the fluent With... setters.
ProviderConfig(c, resource, bt, et, mb, mq) ==
    [ Config             |-> c,
      Resource           |-> resource,
      BatchTimeout       |-> bt,
      ExportTimeout      |-> et,
      MaxExportBatchSize |-> mb,
      MaxQueueSize       |-> mq ]

NewProviderConfig(serviceName, serviceVersion) ==
    ProviderConfig(NewConfig(serviceName, serviceVersion), "nil",
                   DefaultBatchTimeout, DefaultExportTimeout,
                   DefaultMaxExportBatchSize, DefaultMaxQueueSize)

-----------------------------------------------------------------------------
\* The factory (provider/factory.go). Each step is a pure function of the
\* configuration and of whether the external constructor it calls fails.

NoAttrs == [ServiceName |-> "", ServiceVersion |-> "", Environment |-> "", InstanceID |-> ""]

\* createResource: the caller's resource if given, else sdkresource.New with
\* the service attributes of cfg.Config. cfg and cfg.Config are dereferenced
\* unchecked.
createResource(cfg, resFail) ==
    IF cfg = NilProviderConfig THEN [res |-> "nil", attrs |-> NoAttrs, err |-> NilDereference]
    ELSE IF cfg.Resource # "nil" THEN [res |-> cfg.Resource, attrs |-> NoAttrs, err |-> NoErr]
    ELSE IF cfg.Config = NilConfig THEN [res |-> "nil", attrs |-> NoAttrs, err |-> NilDereference]
    ELSE IF resFail
    THEN [res |-> "nil", attrs |-> NoAttrs, err |-> InitializationError("resource", "external")]
    ELSE [res |-> "detected",
          attrs |-> [ServiceName |-> cfg.Config.ServiceName,
                     ServiceVersion |-> cfg.Config.ServiceVersion,
                     Environment |-> cfg.Config.Environment,
                     InstanceID |-> cfg.Config.InstanceID],
          err |-> NoErr]

\* A createExporter whose switch has no default branch: every protocol is served.
ProtocolKnownNoDefault(protocol) == TRUE

\* The protocol switch of createExporter: TRUE when a case other than default is taken.
ProtocolKnown(protocol) == protocol \in {"http", "grpc"}

\* The Field of the ConfigError a createExporter named after the specification's
\* transport policy would return.
PolicyProtocolField == "Protocol"

\* createExporter, default branch: the Field of the ConfigError.
ExporterProtocolField == "OTLPExporterProtocol"

NoOpts == [endpoint |-> "", insecure |-> FALSE]

\* createExporter: called reports whether an OTLP constructor was called, opts
\* the endpoint and the WithInsecure option it was given. cfg.Config is
\* dereferenced unchecked.
createExporter(cfg, expFail) ==
    IF cfg.Config = NilConfig
    THEN [exporter |-> "nil", called |-> FALSE, opts |-> NoOpts, err |-> NilDereference]
    ELSE IF ~ProtocolKnown(cfg.Config.OTLPExporterProtocol)
    THEN [exporter |-> "nil", called |-> FALSE, opts |-> NoOpts,
          err |-> ConfigError(ExporterProtocolField)]
    ELSE IF expFail
    THEN [exporter |-> "nil", called |-> TRUE, opts |-> NoOpts,
          err |-> InitializationError("exporter", "external")]
    ELSE [exporter |-> cfg.Config.OTLPExporterProtocol, called |-> TRUE,
          opts |-> [endpoint |-> cfg.Config.OTLPExporterEndpoint,
                    insecure |-> cfg.Config.OTLPExporterInsecure],
          err |-> NoErr]

\* createSampler: the registry lookup, falling back to the probabilistic factory.
createSampler(c) ==
    IF c.SamplingType = "probabilistic" THEN <<"ParentBased(TraceIDRatioBased)", c.SamplingRatio>>
    ELSE IF c.SamplingType = "always_on" THEN <<"AlwaysSample", 0>>
    ELSE IF c.SamplingType = "always_off" THEN <<"NeverSample", 0>>
    ELSE <<"ParentBased(TraceIDRatioBased)", c.SamplingRatio>>

\* A createBatchProcessor that passes the four fields on as they are.
BatchFieldsAsGiven(cfg) == cfg

\* createBatchProcessor: zero fields are set to their defaults in the caller's
\* ProviderConfig, and the four values are passed to NewBatchSpanProcessor.
BatchDefaults(cfg) ==
    [cfg EXCEPT
        !.BatchTimeout       = IF @ = 0 THEN DefaultBatchTimeout ELSE @,
        !.ExportTimeout      = IF @ = 0 THEN DefaultExportTimeout ELSE @,
        !.MaxExportBatchSize = IF @ = 0 THEN DefaultMaxExportBatchSize ELSE @,
        !.MaxQueueSize       = IF @ = 0 THEN DefaultMaxQueueSize ELSE @]

createBatchProcessor(cfg) ==
    LET d == BatchDefaults(cfg)
    IN  [ BatchTimeout       |-> d.BatchTimeout,
          ExportTimeout      |-> d.ExportTimeout,
          MaxExportBatchSize |-> d.MaxExportBatchSize,
          MaxQueueSize       |-> d.MaxQueueSize ]

NoBsp == [BatchTimeout |-> 0, ExportTimeout |-> 0, MaxExportBatchSize |-> 0, MaxQueueSize |-> 0]

\* What one newProvider call has constructed: nothing yet.
NoBuild == [resource |-> "nil", attrs |-> NoAttrs, exporter |-> "nil", exporterCalled |-> FALSE,
            opts |-> NoOpts, sampler |-> <<"nil", 0>>, bspBuilt |-> FALSE, bsp |-> NoBsp,
            tp |-> FALSE]

\* newProvider: resource, exporter, sampler, batch processor, tracer provider.
\* The result holds what was constructed, the error and the caller's
\* ProviderConfig as the call leaves it.
newProvider(cfg, resFail, expFail) ==
    LET r == createResource(cfg, resFail)
    IN  IF r.err # NoErr
        THEN [built |-> NoBuild, err |-> r.err, cfg |-> cfg]
        ELSE LET e == createExporter(cfg, expFail)
             IN  IF e.err # NoErr
                 THEN [built |-> [NoBuild EXCEPT !.resource = r.res, !.attrs = r.attrs,
                                                 !.exporterCalled = e.called],
                       err |-> e.err, cfg |-> cfg]
                 ELSE [built |-> [resource |-> r.res, attrs |-> r.attrs,
                                  exporter |-> e.exporter, exporterCalled |-> TRUE,
                                  opts |-> e.opts,
                                  sampler |-> createSampler(cfg.Config), bspBuilt |-> TRUE,
                                  bsp |-> createBatchProcessor(cfg), tp |-> TRUE],
                       err |-> NoErr, cfg |-> BatchDefaults(cfg)]

\* newDefaultProvider: the default configuration, validated, then NewProvider.
DefaultProviderVersion(serviceVersion) ==
    IF serviceVersion = <<>> \/ serviceVersion[1] = "" THEN DefaultServiceVersion
    ELSE serviceVersion[1]

DefaultProviderConfig(serviceName, serviceVersion) ==
    LET c == [NewConfig(serviceName, DefaultProviderVersion(serviceVersion)) EXCEPT
                 !.OTLPExporterProtocol = "http",
                 !.OTLPExporterEndpoint = "localhost:4318",
                 !.OTLPExporterInsecure = TRUE,
                 !.SamplingType = DefaultSamplingType,
                 !.SamplingRatio = DefaultSamplingRatio,
                 !.Environment = DefaultEnvironment]
    IN  ProviderConfig(c, "nil", DefaultBatchTimeout, DefaultExportTimeout,
                       DefaultMaxExportBatchSize, DefaultMaxQueueSize)

-----------------------------------------------------------------------------
\* Inputs

\* What callers pass, and which external constructors may fail, while several
\* callers run concurrently.
SpecInputs ==
    [ cfgs     |-> { [NewProviderConfig("svc", "v1") EXCEPT !.Config.OTLPExporterProtocol = proto]
                       : proto \in {"http", "udp"} },
      names    |-> {"", "svc"},
      versions |-> {<<>>},
      envs     |-> {NoEnv},
      resFail  |-> {FALSE},
      expFail  |-> BOOLEAN ]

\* The configurations the factory is applied to one at a time.
FactoryConfigs ==
    { ProviderConfig([NewConfig("svc", "v1") EXCEPT
                          !.OTLPExporterProtocol = proto,
                          !.SamplingType = st,
                          !.SamplingRatio = ratio],
                     res, t, t, b[1], b[2])
        : proto \in {"http", "grpc", "udp"},
          st \in {"probabilistic", "always_on", "always_off", "bogus"},
          ratio \in {-10, 50, 150},
          res \in {"nil", "custom"},
          t \in {0, 1},
          b \in {<<0, 0>>, <<2, 3>>, <<5, 3>>, <<-1, -1>>} }

ServiceNames == {"", "svc"}
ServiceVersions == {<<>>, <<"">>, <<"v2">>}

\* One configuration at a time, every external failure possible.
FactoryInputs ==
    { [cfgs |-> {c}, names |-> ServiceNames, versions |-> ServiceVersions, envs |-> {NoEnv},
       resFail |-> BOOLEAN, expFail |-> BOOLEAN] : c \in FactoryConfigs }

\* The arguments of a SetupTracing call and the environment it ran in.
NoIn == [name |-> "", version |-> <<>>, env |-> NoEnv]

NoCall == [fn |-> "none", pc |-> "idle", arg |-> NewProviderConfig("", ""), in |-> NoIn,
           cfg |-> NewProviderConfig("", ""), built |-> NoBuild,
           tp |-> 0, ret |-> 0, err |-> NoErr, dos |-> 0, ambientAtCall |-> 0]

-----------------------------------------------------------------------------
\* Provider assembly (package provider)

Init ==
    /\ setOnce = [done |-> FALSE, m |-> 0]
    /\ globalTP = 0
    /\ installLog = <<>>
    /\ providers = <<>>
    /\ returned = {}
    /\ inputs = SpecInputs
    /\ call = [p \in Callers |-> NoCall]
    /\ req = [r \in Requests |-> NoReq]
    /\ wire = [r \in Requests |-> NoWire]

\* tp.Shutdown has been called on provider tp (0: no provider).
WasShutDown(tp) == tp # 0 /\ providers[tp].shutdownCalls > 0

\* The *sdktrace.TracerProvider a successful NewProvider hands back: the one it built.
ReturnedProviderAmbient(tp, ambient) == IF ambient # 0 THEN ambient ELSE tp

ReturnedProvider(tp, ambient) == tp

\* A call has finished its last setOnce.Do and returns (tp, nil).
FinishDo(p) ==
    LET c == call[p]
    IN  IF c.dos = 1
        THEN /\ call' = [call EXCEPT ![p].dos = 0, ![p].pc = "idle",
                                     ![p].ret = ReturnedProvider(c.tp, globalTP')]
             /\ returned' = returned \cup {c.tp}
        ELSE /\ call' = [call EXCEPT ![p].dos = c.dos - 1, ![p].pc = "once_check"]
             /\ UNCHANGED returned

\* The body of a call up to its first setOnce.Do: the result of newProvider is
\* recorded, and a provider that was built gets the next id.
BeginWith(p, fn, arg, in, r, dos) ==
    /\ call[p].pc = "idle"
    /\ Len(providers) < MaxProviders
    /\ IF r.err # NoErr
       THEN /\ call' = [call EXCEPT ![p] =
                    [fn |-> fn, pc |-> "idle", arg |-> arg, in |-> in, cfg |-> r.cfg,
                     built |-> r.built, tp |-> 0, ret |-> 0, err |-> r.err, dos |-> 0,
                     ambientAtCall |-> globalTP]]
            /\ UNCHANGED providers
       ELSE /\ call' = [call EXCEPT ![p] =
                    [fn |-> fn, pc |-> "once_check", arg |-> arg, in |-> in, cfg |-> r.cfg,
                     built |-> r.built, tp |-> Len(providers) + 1, ret |-> 0, err |-> NoErr,
                     dos |-> dos, ambientAtCall |-> globalTP]]
            /\ providers' = Append(providers,
                    [by |-> p, afterReturn |-> returned # {}, shutdownCalls |-> 0,
                     afterShutdown |-> WasShutDown(globalTP)])
    /\ UNCHANGED <<setOnce, globalTP, installLog, returned, inputs, req, wire>>

Begin(p, fn, arg, r, dos) == BeginWith(p, fn, arg, NoIn, r, dos)

\* NewProvider(ctx, cfg): newProvider, then setOnce.Do.
NewProvider(p, cfg, resFail, expFail) ==
    Begin(p, "NewProvider", cfg, newProvider(cfg, resFail, expFail), 1)

\* NewDefaultProvider(ctx, serviceName, serviceVersion...): newDefaultProvider
\* validates the default configuration and calls NewProvider, which runs
\* setOnce.Do; NewDefaultProvider then runs setOnce.Do itself.
NewDefaultProvider(p, serviceName, serviceVersion, resFail, expFail) ==
    LET cfg == DefaultProviderConfig(serviceName, serviceVersion)
        v == Validate(cfg.Config)
    IN  Begin(p, "NewDefaultProvider", cfg,
              IF v # NoErr
              THEN [built |-> NoBuild, cfg |-> cfg,
                    err |-> InitializationError("default provider config", v.field)]
              ELSE newProvider(cfg, resFail, expFail),
              2)

\* A doSlow that runs f without looking at done again once it holds the mutex.
OnceSlowRunsUnchecked(done) == TRUE

\* sync.Once.doSlow, under the mutex: f runs when done is still unset.
OnceSlowRuns(done) == ~done

\* sync.Once.Do, fast path: done is read without the mutex.
OnceCheck(p) ==
    /\ call[p].pc = "once_check"
    /\ UNCHANGED <<setOnce, globalTP, installLog, providers, inputs, req, wire>>
    /\ IF setOnce.done
       THEN FinishDo(p)
       ELSE /\ call' = [call EXCEPT ![p].pc = "once_slow"]
            /\ UNCHANGED returned

\* sync.Once.doSlow: o.m.Lock().
OnceLock(p) ==
    /\ call[p].pc = "once_slow"
    /\ setOnce.m = 0
    /\ setOnce' = [setOnce EXCEPT !.m = p]
    /\ call' = [call EXCEPT ![p].pc = "once_locked"]
    /\ UNCHANGED <<globalTP, installLog, providers, returned, inputs, req, wire>>

\* sync.Once.doSlow under the mutex: otel.SetTracerProvider(tp) and done is
\* set, unless done is set already; then the mutex is released.
OnceRun(p) ==
    /\ call[p].pc = "once_locked"
    /\ IF OnceSlowRuns(setOnce.done)
       THEN /\ globalTP' = call[p].tp
            /\ installLog' = Append(installLog, call[p].tp)
            /\ setOnce' = [done |-> TRUE, m |-> 0]
       ELSE /\ setOnce' = [setOnce EXCEPT !.m = 0]
            /\ UNCHANGED <<globalTP, installLog>>
    /\ FinishDo(p)
    /\ UNCHANGED <<providers, inputs, req, wire>>

\* ShutdownTracerProvider(ctx, tp): nothing for a nil provider (tp = 0), else
\* tp.Shutdown(ctx) is called.
ShutdownTracerProvider(p, tp) ==
    /\ call[p].pc = "idle"
    /\ IF tp = 0
       THEN UNCHANGED providers
       ELSE /\ providers[tp].shutdownCalls < MaxShutdownCalls
            /\ providers' = [providers EXCEPT ![tp].shutdownCalls = @ + 1]
    /\ UNCHANGED <<setOnce, globalTP, installLog, returned, inputs, call, req, wire>>

ProviderNext(C) ==
    \E p \in C :
        \/ \E cfg \in inputs.cfgs, resFail \in inputs.resFail, expFail \in inputs.expFail :
               NewProvider(p, cfg, resFail, expFail)
        \/ \E n \in inputs.names, v \in inputs.versions,
              resFail \in inputs.resFail, expFail \in inputs.expFail :
               NewDefaultProvider(p, n, v, resFail, expFail)
        \/ OnceCheck(p)
        \/ OnceLock(p)
        \/ OnceRun(p)

\* Any number of callers construct providers concurrently.
Next == ProviderNext(Callers)

Spec == Init /\ [][Next]_vars

\* The factory applied by one caller to one configuration out of FactoryConfigs.
FactoryInit ==
    /\ setOnce = [done |-> FALSE, m |-> 0]
    /\ globalTP = 0
    /\ installLog = <<>>
    /\ providers = <<>>
    /\ returned = {}
    /\ inputs \in FactoryInputs
    /\ call = [p \in Callers |-> NoCall]
    /\ req = [r \in Requests |-> NoReq]
    /\ wire = [r \in Requests |-> NoWire]

FactoryNext == ProviderNext({1})

FactorySpec == FactoryInit /\ [][FactoryNext]_vars

\* A provider's lifetime in one goroutine: construction, install, shutdown.
LifecycleNext ==
    \/ ProviderNext({1})
    \/ \E tp \in 0..Len(providers) : ShutdownTracerProvider(1, tp)

LifecycleSpec == Init /\ [][LifecycleNext]_vars

-----------------------------------------------------------------------------
\* The setup functions (package tracer, setup.go)

\* createTracingConfig: the environment's configuration with the service
\* name and version overwritten by the arguments, then validated.
createTracingConfig(env, serviceName, serviceVersion) ==
    LET cfg == [NewConfigFromEnv(env) EXCEPT !.ServiceName = serviceName,
                                            !.ServiceVersion = serviceVersion]
        v == Validate(cfg)
    IN  [cfg |-> cfg,
         err |-> IF v # NoErr THEN InitializationError("configuration", v.field) ELSE NoErr]

\* createTracingProvider: the ProviderConfig it hands to provider.NewProvider.
createTracingProvider(cfg) ==
    ProviderConfig(cfg, "nil", DefaultBatchTimeout, DefaultExportTimeout,
                   DefaultMaxExportBatchSize, DefaultMaxQueueSize)

\* The version SetupTracing uses: its first variadic argument, else "1.0.0".
SetupVersion(serviceVersion) ==
    IF Len(serviceVersion) > 0 THEN serviceVersion[1] ELSE "1.0.0"

\* SetupTracing(ctx, serviceName, serviceVersion...) in the environment env.
SetupTracing(p, env, serviceName, serviceVersion, resFail, expFail) ==
    LET c == createTracingConfig(env, serviceName, SetupVersion(serviceVersion))
        providerCfg == createTracingProvider(c.cfg)
    IN  BeginWith(p, "SetupTracing", providerCfg,
                  [name |-> serviceName, version |-> serviceVersion, env |-> env],
                  IF c.err # NoErr
                  THEN [built |-> NoBuild, cfg |-> providerCfg, err |-> c.err]
                  ELSE newProvider(providerCfg, resFail, expFail),
                  1)

\* SetupTracingWithDefaults(ctx, serviceName, serviceVersion):
\* provider.NewDefaultProvider with the version as its one variadic argument.
SetupTracingWithDefaults(p, serviceName, serviceVersion, resFail, expFail) ==
    LET cfg == DefaultProviderConfig(serviceName, <<serviceVersion>>)
        v == Validate(cfg.Config)
    IN  BeginWith(p, "SetupTracingWithDefaults", cfg,
                  [name |-> serviceName, version |-> <<serviceVersion>>, env |-> NoEnv],
                  IF v # NoErr
                  THEN [built |-> NoBuild, cfg |-> cfg,
                        err |-> InitializationError("default provider config", v.field)]
                  ELSE newProvider(cfg, resFail, expFail),
                  2)

\* SetupCustomTracing(ctx, cfg): nil checks, Validate, provider.NewProvider.
SetupCustomTracing(p, cfg, resFail, expFail) ==
    BeginWith(p, "SetupCustomTracing", cfg, NoIn,
              IF cfg = NilProviderConfig
              THEN [built |-> NoBuild, cfg |-> cfg, err |-> ConfigError("config")]
              ELSE IF cfg.Config = NilConfig
              THEN [built |-> NoBuild, cfg |-> cfg, err |-> ConfigError("config.Config")]
              ELSE LET v == Validate(cfg.Config)
                   IN  IF v # NoErr
                       THEN [built |-> NoBuild, cfg |-> cfg,
                             err |-> InitializationError("configuration", v.field)]
                       ELSE newProvider(cfg, resFail, expFail),
              1)

\* Environments with one variable set, to a value that parses or to one that
\* does not, and one with the batch variables set together.
SetupEnvs ==
    {NoEnv}
    \cup { [NoEnv EXCEPT ![kv[1]] = kv[2]] :
             kv \in { <<EnvServiceName, "envsvc">>, <<EnvServiceVersion, "v9">>,
                      <<EnvEnvironment, "production">>, <<EnvEnvironment, "qa">>,
                      <<EnvOTLPExporterEndpoint, "collector:4317">>,
                      <<EnvOTLPExporterInsecure, "true">>, <<EnvOTLPExporterInsecure, "yes">>,
                      <<EnvOTLPExporterProtocol, "http">>, <<EnvOTLPExporterProtocol, "udp">>,
                      <<EnvBatchTimeout, "10s">>, <<EnvBatchTimeout, "10">>,
                      <<EnvExportTimeout, "1m">>,
                      <<EnvMaxExportBatchSize, "100">>, <<EnvMaxExportBatchSize, "many">>,
                      <<EnvMaxQueueSize, "100">>,
                      <<EnvSamplingType, "always_on">>, <<EnvSamplingType, "bogus">>,
                      <<EnvSamplingRatio, "0.5">>, <<EnvSamplingRatio, "1.5">>,
                      <<EnvSamplingRatio, "NaN">>,
                      <<EnvInstanceID, "pod-1">> } }

\* ProviderConfig values handed to NewProvider and SetupCustomTracing,
\* nil and with a nil Config among them.
SetupConfigs ==
    { NilProviderConfig,
      ProviderConfig(NilConfig, "nil", 0, 0, 0, 0),
      ProviderConfig(NilConfig, "custom", 0, 0, 0, 0),
      NewProviderConfig("svc", "v1"),
      NewProviderConfig("", "v1"),
      [NewProviderConfig("svc", "v1") EXCEPT !.Config.OTLPExporterProtocol = "udp"],
      [NewProviderConfig("svc", "v1") EXCEPT !.Config.SamplingRatio = 150] }

\* One call's worth of inputs: an environment with every choice of name and
\* version, or a ProviderConfig with every choice of exporter failure.
SetupInputs ==
    { [cfgs |-> {NewProviderConfig("svc", "v1")}, names |-> {n}, versions |-> {v},
       envs |-> {e}, resFail |-> {FALSE}, expFail |-> {FALSE}]
        : n \in ServiceNames, v \in ServiceVersions, e \in SetupEnvs }
    \cup
    { [cfgs |-> {c}, names |-> {"svc"}, versions |-> {<<"v2">>},
       envs |-> {NoEnv}, resFail |-> {FALSE}, expFail |-> {ef}]
        : c \in SetupConfigs, ef \in BOOLEAN }

SetupInit ==
    /\ setOnce = [done |-> FALSE, m |-> 0]
    /\ globalTP = 0
    /\ installLog = <<>>
    /\ providers = <<>>
    /\ returned = {}
    /\ inputs \in SetupInputs
    /\ call = [p \in Callers |-> NoCall]
    /\ req = [r \in Requests |-> NoReq]
    /\ wire = [r \in Requests |-> NoWire]

\* One goroutine calling the constructors of package provider and the setup
\* functions of package tracer.
SetupNext ==
    \/ ProviderNext({1})
    \/ \E e \in inputs.envs, n \in inputs.names, v \in inputs.versions,
          resFail \in inputs.resFail, expFail \in inputs.expFail :
           SetupTracing(1, e, n, v, resFail, expFail)
    \/ \E n \in inputs.names, v \in inputs.versions,
          resFail \in inputs.resFail, expFail \in inputs.expFail :
           /\ Len(v) = 1
           /\ SetupTracingWithDefaults(1, n, v[1], resFail, expFail)
    \/ \E cfg \in inputs.cfgs, resFail \in inputs.resFail, expFail \in inputs.expFail :
           SetupCustomTracing(1, cfg, resFail, expFail)

SetupSpec == SetupInit /\ [][SetupNext]_vars

-----------------------------------------------------------------------------
\* Config.Validate applied on its own

\* Configurations with every combination of a valid and an invalid value per
\* validated field; the ratios lie at and next to both ends of the range.
ValidateConfigs ==
    { ProviderConfig([NewConfig(n, v) EXCEPT
                          !.Environment = e,
                          !.OTLPExporterEndpoint = ep,
                          !.SamplingRatio = ratio,
                          !.SamplingType = st,
                          !.OTLPExporterProtocol = proto],
                     "nil", 0, 0, 0, 0)
        : n \in {"", "svc"}, v \in {"", "v1"}, e \in {"production", "qa"},
          ep \in {"", "localhost:4317"}, ratio \in {0 - 1, 0, 100, 101, NaN},
          st \in {"always_on", "bogus"}, proto \in {"grpc", "udp"} }

\* One configuration at a time.
ValidateInputs ==
    { [cfgs |-> {c}, names |-> {"svc"}, versions |-> {<<>>}, envs |-> {NoEnv},
       resFail |-> {FALSE}, expFail |-> {FALSE}] : c \in ValidateConfigs }

\* cfg.Config.Validate() is called and returns.
ValidateConfig(p, cfg) ==
    /\ call[p].pc = "idle"
    /\ call' = [call EXCEPT ![p] = [NoCall EXCEPT !.fn = "Validate", !.arg = cfg, !.cfg = cfg,
                                                  !.err = Validate(cfg.Config)]]
    /\ UNCHANGED <<setOnce, globalTP, installLog, providers, returned, inputs, req, wire>>

ValidateInit ==
    /\ setOnce = [done |-> FALSE, m |-> 0]
    /\ globalTP = 0
    /\ installLog = <<>>
    /\ providers = <<>>
    /\ returned = {}
    /\ inputs \in ValidateInputs
    /\ call = [p \in Callers |-> NoCall]
    /\ req = [r \in Requests |-> NoReq]
    /\ wire = [r \in Requests |-> NoWire]

ValidateNext == \E cfg \in inputs.cfgs : ValidateConfig(1, cfg)

ValidateSpec == ValidateInit /\ [][ValidateNext]_vars

-----------------------------------------------------------------------------
\* ProviderConfig values with fields left unset

\* The fluent setters of ProviderConfig.
WithOTLPExporter(pc, endpoint, protocol, insecure) ==
    [pc EXCEPT !.Config.OTLPExporterEndpoint = endpoint,
               !.Config.OTLPExporterProtocol = protocol,
               !.Config.OTLPExporterInsecure = insecure]

WithSampling(pc, samplingType, ratio) ==
    [pc EXCEPT !.Config.SamplingType = samplingType, !.Config.SamplingRatio = ratio]

WithBatchOptions(pc, batchTimeout, exportTimeout, maxExportBatchSize, maxQueueSize) ==
    [pc EXCEPT !.BatchTimeout = batchTimeout, !.ExportTimeout = exportTimeout,
               !.MaxExportBatchSize = maxExportBatchSize, !.MaxQueueSize = maxQueueSize]

WithResource(pc, resource) == [pc EXCEPT !.Resource = resource]

\* &config.Config{}: every field at its zero value.
ZeroConfig ==
    [ ServiceName          |-> "",
      ServiceVersion       |-> "",
      Environment          |-> "",
      OTLPExporterEndpoint |-> "",
      OTLPExporterInsecure |-> FALSE,
      OTLPExporterProtocol |-> "",
      BatchTimeout         |-> 0,
      ExportTimeout        |-> 0,
      MaxExportBatchSize   |-> 0,
      MaxQueueSize         |-> 0,
      SamplingRatio        |-> 0,
      SamplingType         |-> "",
      InstanceID           |-> "" ]

\* NewProviderConfig with any of the four setters called or not; the batch
\* setter is called with every field set, with none, or with two of them.
BuilderConfigs ==
    { LET a == NewProviderConfig("svc", "v1")
          b == IF e THEN WithOTLPExporter(a, "collector:4318", "http", TRUE) ELSE a
          c == IF s THEN WithSampling(b, "always_on", 100) ELSE b
          d == IF bo = <<>> THEN c ELSE WithBatchOptions(c, bo[1], bo[2], bo[3], bo[4])
      IN  IF r THEN WithResource(d, "custom") ELSE d
        : e \in BOOLEAN, s \in BOOLEAN, r \in BOOLEAN,
          bo \in {<<>>, <<1, 1, 2, 3>>, <<0, 0, 0, 0>>, <<0, 1, 0, 3>>} }

\* &ProviderConfig{Config: &config.Config{...}} with any of the fields written
\* in the literal or left out.
LiteralConfigs ==
    { ProviderConfig([ZeroConfig EXCEPT !.ServiceName = n,
                                        !.ServiceVersion = n,
                                        !.OTLPExporterEndpoint = ep,
                                        !.OTLPExporterProtocol = proto,
                                        !.SamplingType = st],
                     "nil", t, t, mb, mq)
        : n \in {"", "svc"}, ep \in {"", "collector:4317"}, proto \in {"", "grpc", "http"},
          st \in {"", "always_off"}, t \in {0, 1}, mb \in {0, 2}, mq \in {0, 3} }

PartialConfigs == BuilderConfigs \cup LiteralConfigs

\* One configuration at a time, the exporter's constructor failing or not.
PartialInputs ==
    { [cfgs |-> {c}, names |-> {"svc"}, versions |-> {<<>>}, envs |-> {NoEnv},
       resFail |-> {FALSE}, expFail |-> BOOLEAN] : c \in PartialConfigs }

PartialInit ==
    /\ setOnce = [done |-> FALSE, m |-> 0]
    /\ globalTP = 0
    /\ installLog = <<>>
    /\ providers = <<>>
    /\ returned = {}
    /\ inputs \in PartialInputs
    /\ call = [p \in Callers |-> NoCall]
    /\ req = [r \in Requests |-> NoReq]
    /\ wire = [r \in Requests |-> NoWire]

\* One goroutine calling NewProvider.
PartialNext ==
    \/ \E cfg \in inputs.cfgs, resFail \in inputs.resFail, expFail \in inputs.expFail :
           NewProvider(1, cfg, resFail, expFail)
    \/ OnceCheck(1)
    \/ OnceLock(1)
    \/ OnceRun(1)

PartialSpec == PartialInit /\ [][PartialNext]_vars

-----------------------------------------------------------------------------
\* HTTP middleware (HTTPMiddleware.Middleware and responseWriter)

StatusOK == 200
StatusCodes == {404, 500}

\* One call of the handler on the http.ResponseWriter it was given.
WriteHeaderCall(code) == [op |-> "WriteHeader", code |-> code]
WriteCall == [op |-> "Write", code |-> 0]
HeaderCall == [op |-> "Header", code |-> 0]

\* A responseWriter.WriteHeader that answers for the handler: it passes 200 on.
ForwardedCodeFixed(code) == StatusOK

\* responseWriter.WriteHeader: the code passed to the wrapped ResponseWriter.
ForwardedCode(code) == code

\* A WriteHeader that forwards the code without recording it.
CapturedStatusKept(status, code) == status

\* responseWriter.WriteHeader: w.status = code.
CapturedStatus(status, code) == code

\* Whether the span.End() registered by the middleware runs on this exit
\* path, were it a plain call after the status attribute instead of a defer.
EndAfterStatusOnly(panicked) == ~panicked

\* defer span.End(): runs when the handler returns and when it panics.
DeferredEndRuns(panicked) == TRUE

\* A tracer taken from the provider built last, installed or not.
TracerOfLatestBuilt(ambient, latest) == latest

\* tracer.New: otel.Tracer(name), a tracer of the global provider; 0 stands
\* for the provider otel holds when none was installed.
TracerOf(ambient, latest) == ambient

\* Lines 74-90: the propagator extracts the upstream trace context, the
\* tracer starts a server span named "METHOD path" with the three request
\* attributes, and span.End is deferred. The span remembers what was true of
\* the process when it was started: how many installs had taken place,
\* whether its provider had been shut down, and whether a constructor called
\* after the ambient provider's shutdown had returned a provider.
MwStart(r, upstream) ==
    /\ req[r].pc = "NotStarted"
    /\ req' = [req EXCEPT ![r].pc = "Started",
                          ![r].span = [started |-> TRUE, name |-> "METHOD path", kind |-> "Server",
                                       attrs |-> {"http.method", "http.url", "http.user_agent"},
                                       remoteParent |-> upstream,
                                       provider |-> TracerOf(globalTP, Len(providers)),
                                       statusCode |-> 0, ends |-> 0,
                                       installsAtStart |-> Len(installLog),
                                       providerShutDown |->
                                           WasShutDown(TracerOf(globalTP, Len(providers))),
                                       reSetup |-> \E k \in returned :
                                                       /\ providers[k].afterShutdown
                                                       /\ providers[k].shutdownCalls = 0,
                                       calls |-> <<>>],
                          ![r].log = Append(@, "start")]
    /\ UNCHANGED <<provVars, wire>>

\* Lines 93-96: the responseWriter wraps w with status 200 and the next
\* handler is called with the span's context.
MwServe(r) ==
    /\ req[r].pc = "Started"
    /\ req' = [req EXCEPT ![r].pc = "InHandler", ![r].rwStatus = StatusOK,
                          ![r].handlerCalls = @ + 1, ![r].spanInCtx = req[r].span.started,
                          ![r].log = Append(@, "serve")]
    /\ UNCHANGED <<provVars, wire>>

\* The handler calls w.WriteHeader(code): responseWriter.WriteHeader stores
\* the code and passes it on; net/http keeps the first header it is given.
HandlerWriteHeader(r, code) ==
    /\ req[r].pc = "InHandler"
    /\ req[r].ops < MaxHandlerOps
    /\ req' = [req EXCEPT ![r].rwStatus = CapturedStatus(@, code), ![r].ops = @ + 1,
                          ![r].produced = Append(@, WriteHeaderCall(code))]
    /\ wire' = [wire EXCEPT ![r].code = IF @ = 0 THEN ForwardedCode(code) ELSE @,
                            ![r].received = Append(@, WriteHeaderCall(ForwardedCode(code)))]
    /\ UNCHANGED provVars

\* The handler calls w.Write: the embedded ResponseWriter's Write, which
\* sends a 200 header when none has been sent.
HandlerWrite(r) ==
    /\ req[r].pc = "InHandler"
    /\ req[r].ops < MaxHandlerOps
    /\ req' = [req EXCEPT ![r].ops = @ + 1, ![r].produced = Append(@, WriteCall)]
    /\ wire' = [wire EXCEPT ![r].code = IF @ = 0 THEN StatusOK ELSE @, ![r].writes = @ + 1,
                            ![r].received = Append(@, WriteCall)]
    /\ UNCHANGED provVars

\* The handler calls w.Header().Set(...): Header is the wrapped
\* ResponseWriter's own method, so the entry lands in its header map; net/http
\* sends the entries made before the header is written.
HandlerSetHeader(r) ==
    /\ req[r].pc = "InHandler"
    /\ req[r].ops < MaxHandlerOps
    /\ req' = [req EXCEPT ![r].ops = @ + 1, ![r].produced = Append(@, HeaderCall)]
    /\ wire' = [wire EXCEPT ![r].headers = IF wire[r].code = 0 THEN @ + 1 ELSE @,
                            ![r].received = Append(@, HeaderCall)]
    /\ UNCHANGED provVars

\* The handler returns.
HandlerReturn(r) ==
    /\ req[r].pc = "InHandler"
    /\ req' = [req EXCEPT ![r].pc = "Returned", ![r].log = Append(@, "return")]
    /\ UNCHANGED <<provVars, wire>>

\* The handler panics: the middleware's function unwinds.
HandlerPanic(r) ==
    /\ req[r].pc = "InHandler"
    /\ req' = [req EXCEPT ![r].pc = "Unwinding", ![r].panicked = TRUE,
                          ![r].log = Append(@, "panic")]
    /\ UNCHANGED <<provVars, wire>>

\* Line 99: span.SetAttributes(http.status_code = rw.status).
MwSetStatus(r) ==
    /\ req[r].pc = "Returned"
    /\ req' = [req EXCEPT ![r].pc = "Unwinding",
                          ![r].span.statusCode = req[r].rwStatus,
                          ![r].span.attrs = @ \cup {"http.status_code"},
                          ![r].log = Append(@, "status")]
    /\ UNCHANGED <<provVars, wire>>

\* The deferred span.End() runs as the middleware's function leaves.
MwEnd(r) ==
    /\ req[r].pc = "Unwinding"
    /\ IF DeferredEndRuns(req[r].panicked)
       THEN req' = [req EXCEPT ![r].pc = "Completed", ![r].span.ends = @ + 1,
                               ![r].log = Append(@, "end")]
       ELSE req' = [req EXCEPT ![r].pc = "Completed"]
    /\ UNCHANGED <<provVars, wire>>

\* net/http after the handler chain: a response that sent no header goes out
\* with 200; after a panic the server aborts the response instead.
ServerFinish(r) ==
    /\ req[r].pc = "Completed"
    /\ ~wire[r].done
    /\ wire' = [wire EXCEPT ![r].done = TRUE,
                            ![r].code = IF @ = 0 /\ ~req[r].panicked THEN StatusOK ELSE @]
    /\ UNCHANGED <<provVars, req>>

\* One request through the middleware, the handler setting no header entries.
RequestNext(r) ==
    \/ \E upstream \in BOOLEAN : MwStart(r, upstream)
    \/ MwServe(r)
    \/ \E code \in StatusCodes : HandlerWriteHeader(r, code)
    \/ HandlerWrite(r)
    \/ HandlerReturn(r)
    \/ HandlerPanic(r)
    \/ MwSetStatus(r)
    \/ MwEnd(r)
    \/ ServerFinish(r)

\* Requests are served concurrently.
HTTPNext == \E r \in Requests : RequestNext(r)

\* The process as requests arrive: either no provider was ever installed, or
\* caller 1's NewDefaultProvider("svc") has returned.
InstalledCall ==
    LET cfg == DefaultProviderConfig("svc", <<>>)
        r == newProvider(cfg, FALSE, FALSE)
    IN  [fn |-> "NewDefaultProvider", pc |-> "idle", arg |-> cfg, in |-> NoIn, cfg |-> r.cfg,
         built |-> r.built, tp |-> 1, ret |-> 1, err |-> NoErr, dos |-> 0, ambientAtCall |-> 0]

HTTPInit ==
    /\ inputs = SpecInputs
    /\ req = [r \in Requests |-> NoReq]
    /\ wire = [r \in Requests |-> NoWire]
    /\ \/ /\ setOnce = [done |-> FALSE, m |-> 0]
          /\ globalTP = 0
          /\ installLog = <<>>
          /\ providers = <<>>
          /\ returned = {}
          /\ call = [p \in Callers |-> NoCall]
       \/ /\ setOnce = [done |-> TRUE, m |-> 0]
          /\ globalTP = 1
          /\ installLog = <<1>>
          /\ providers = <<[by |-> 1, afterReturn |-> FALSE, shutdownCalls |-> 0,
                             afterShutdown |-> FALSE]>>
          /\ returned = {1}
          /\ call = [p \in Callers |-> IF p = 1 THEN InstalledCall ELSE NoCall]

HTTPSpec == HTTPInit /\ [][HTTPNext]_vars

\* One request whose handler uses all of http.ResponseWriter: Header,
\* WriteHeader and Write.
ResponseNext ==
    \/ RequestNext(1)
    \/ HandlerSetHeader(1)

ResponseSpec == HTTPInit /\ [][ResponseNext]_vars

-----------------------------------------------------------------------------
\* The span helpers of package tracer (http_client.go) and RecordErrorEnhanced

\* Each helper is given a span, nil or not, and some an error, nil or not, and
\* yields the methods it calls on the span, in order, and how it ends: by
\* returning or by the panic of a method call on a nil interface value.
Returns(methods) == [methods |-> methods, err |-> NoErr]
Panics == [methods |-> <<>>, err |-> NilDereference]

AddAttributes(spanNil) == IF ~spanNil THEN Returns(<<"SetAttributes">>) ELSE Returns(<<>>)

AddEvent(spanNil) == IF ~spanNil THEN Returns(<<"AddEvent">>) ELSE Returns(<<>>)

\* AddTimedEvent calls span.AddEvent without looking at span.
AddTimedEvent(spanNil) == IF spanNil THEN Panics ELSE Returns(<<"AddEvent">>)

\* A RecordError that looks at span only: err.Error() is called on a nil error.
RecordErrorSpanCheckOnly(spanNil, errNil) ==
    IF spanNil THEN Returns(<<>>)
    ELSE IF errNil THEN [methods |-> <<"RecordError">>, err |-> NilDereference]
    ELSE Returns(<<"RecordError", "SetStatus">>)

RecordError(spanNil, errNil) ==
    IF spanNil \/ errNil THEN Returns(<<>>)
    ELSE Returns(<<"RecordError", "SetStatus">>)

RecordErrorEnhanced(spanNil, errNil) ==
    IF spanNil \/ errNil THEN Returns(<<>>)
    ELSE Returns(<<"RecordError", "SetStatus", "SetAttributes">>)

EndSpan(spanNil) == IF ~spanNil THEN Returns(<<"End">>) ELSE Returns(<<>>)

HelperNames ==
    {"AddAttributes", "AddEvent", "AddTimedEvent", "RecordError", "RecordErrorEnhanced", "EndSpan"}

Helper(fn, spanNil, errNil) ==
    CASE fn = "AddAttributes" -> AddAttributes(spanNil)
      [] fn = "AddEvent" -> AddEvent(spanNil)
      [] fn = "AddTimedEvent" -> AddTimedEvent(spanNil)
      [] fn = "RecordError" -> RecordError(spanNil, errNil)
      [] fn = "RecordErrorEnhanced" -> RecordErrorEnhanced(spanNil, errNil)
      [] fn = "EndSpan" -> EndSpan(spanNil)

\* Goroutine p calls helper fn with span (0: nil, else the span of request
\* span) and an error. The call record keeps the arguments and whether any
\* span was changed by the call.
HelperCall(p, fn, span, errNil) ==
    LET h == Helper(fn, span = 0, errNil)
    IN  /\ call[p].pc = "idle"
        /\ span # 0 => /\ req[span].span.started
                       /\ Len(req[span].span.calls) + Len(h.methods) <= MaxSpanCalls
        /\ req' = IF span = 0 THEN req
                  ELSE [req EXCEPT ![span].span.calls = @ \o h.methods]
        /\ call' = [call EXCEPT ![p] =
                        [NoCall EXCEPT !.fn = fn, !.err = h.err,
                                       !.in = [spanNil |-> span = 0, errNil |-> errNil,
                                               changed |-> req' # req]]]
        /\ UNCHANGED <<setOnce, globalTP, installLog, providers, returned, inputs, wire>>

\* One goroutine starts a span and calls the helpers on it and on nil.
HelperNext ==
    \/ MwStart(1, FALSE)
    \/ \E fn \in HelperNames, span \in {0, 1}, errNil \in BOOLEAN : HelperCall(1, fn, span, errNil)

HelperSpec == HTTPInit /\ [][HelperNext]_vars

-----------------------------------------------------------------------------
\* Requests served while providers are built, installed and shut down

\* The one ProviderConfig, service name and environment the setup calls use.
TracedInputs ==
    [ cfgs     |-> {NewProviderConfig("svc", "v1")},
      names    |-> {"svc"},
      versions |-> {<<>>},
      envs     |-> {NoEnv},
      resFail  |-> {FALSE},
      expFail  |-> BOOLEAN ]

TracedInit ==
    /\ setOnce = [done |-> FALSE, m |-> 0]
    /\ globalTP = 0
    /\ installLog = <<>>
    /\ providers = <<>>
    /\ returned = {}
    /\ inputs = TracedInputs
    /\ call = [p \in Callers |-> NoCall]
    /\ req = [r \in Requests |-> NoReq]
    /\ wire = [r \in Requests |-> NoWire]

\* One goroutine sets tracing up and shuts providers down while one request
\* with no upstream trace context passes through the middleware, its handler
\* answering 404.
TracedNext ==
    \/ ProviderNext({1})
    \/ \E e \in inputs.envs, n \in inputs.names, v \in inputs.versions,
          resFail \in inputs.resFail, expFail \in inputs.expFail :
           SetupTracing(1, e, n, v, resFail, expFail)
    \/ \E tp \in 0..Len(providers) : ShutdownTracerProvider(1, tp)
    \/ MwStart(1, FALSE)
    \/ MwServe(1)
    \/ HandlerWriteHeader(1, 404)
    \/ HandlerReturn(1)
    \/ MwSetStatus(1)
    \/ MwEnd(1)
    \/ ServerFinish(1)

TracedSpec == TracedInit /\ [][TracedNext]_vars

-----------------------------------------------------------------------------
\* Properties

IsPrefix(s, t) == Len(s) <= Len(t) /\ \A i \in 1..Len(s) : s[i] = t[i]

Occurrences(s, e) == Cardinality({i \in 1..Len(s) : s[i] = e})

MiddlewareLifecycleInOrder ==
    \A r \in Requests :
        LET q == req[r]
        IN  /\ \/ IsPrefix(q.log, <<"start", "serve", "return", "status", "end">>)
               \/ IsPrefix(q.log, <<"start", "serve", "panic", "end">>)
            /\ q.handlerCalls = Occurrences(q.log, "serve")
            /\ q.span.ends = Occurrences(q.log, "end")
            /\ q.span.started <=> q.pc # "NotStarted"
            /\ q.handlerCalls = 1 => q.spanInCtx
            /\ q.pc = "Completed" => /\ q.handlerCalls = 1
                                     /\ q.span.ends = 1
                                     /\ q.span.started

\* A request whose handler panicked has completed with its span ended.
PanickedRequestCompleted ==
    \E r \in Requests :
        /\ req[r].pc = "Completed"
        /\ req[r].panicked
        /\ req[r].span.ends = 1

\* C9: a NewProvider call made when an ambient provider is installed returns
\* a provider that is not the ambient one and not one returned to anybody
\* else, built with its own exporter, sampler and batch processor, and the
\* ambient provider stays the one that was installed when the call was made.
LaterNewProviderIsIndependent ==
    \A p \in Callers :
        (call[p].fn = "NewProvider" /\ call[p].ambientAtCall # 0) =>
            /\ globalTP = call[p].ambientAtCall
            /\ (call[p].pc = "idle" /\ call[p].err = NoErr) =>
                  /\ call[p].ret \in 1..Len(providers)
                  /\ call[p].ret # globalTP
                  /\ \A q \in Callers \ {p} : call[q].ret # call[p].ret
                  /\ call[p].built.tp
                  /\ call[p].built.bspBuilt
                  /\ call[p].built.exporter \in {"http", "grpc"}

\* A NewProvider call that began after the install has returned a provider.
NewProviderReturnedAfterInstall ==
    \E p \in Callers :
        /\ call[p].fn = "NewProvider"
        /\ call[p].ambientAtCall # 0
        /\ call[p].pc = "idle"
        /\ call[p].err = NoErr
        /\ call[p].ret # 0

\* What the specification calls a violation of the sampling, transport or
\* batch policy of a ProviderConfig. A zero batch field is an unset one.
ViolatesPolicy(cfg) ==
    \/ cfg.Config.SamplingRatio < 0
    \/ cfg.Config.SamplingRatio > 100
    \/ cfg.Config.OTLPExporterProtocol \notin {"http", "grpc"}
    \/ cfg.MaxExportBatchSize < 0
    \/ cfg.MaxQueueSize < 0

\* A NewProvider call that got past resource resolution.
PastResource(p) ==
    /\ call[p].fn = "NewProvider"
    /\ call[p].err # InitializationError("resource", "external")

NothingBuilt(p) ==
    /\ ~call[p].built.exporterCalled
    /\ ~call[p].built.bspBuilt
    /\ ~call[p].built.tp
    /\ call[p].tp = 0

FirstCommit(calls) ==
    LET I == {i \in 1..Len(calls) : calls[i].op # "Header"}
    IN  IF I = {} THEN 0 ELSE CHOOSE i \in I : \A j \in I : i <= j

DeliveredCode(calls) ==
    LET i == FirstCommit(calls)
    IN  IF i = 0 THEN 0
        ELSE IF calls[i].op = "WriteHeader" THEN calls[i].code ELSE StatusOK

DeliveredHeaders(calls) ==
    LET i == FirstCommit(calls)
    IN  Cardinality({j \in 1..Len(calls) : calls[j].op = "Header" /\ (i = 0 \/ j < i)})

DeliveredBody(calls) == Occurrences(calls, WriteCall)

\* C11: with or without an installed provider the middleware lets every
\* request through to the handler, and the wrapped http.ResponseWriter
\* receives exactly the handler's calls in the handler's order, so that the
\* status code, the header entries and the body that go out are the ones the
\* handler's calls produce on a bare ResponseWriter.
ResponsePassedThrough ==
    \A r \in Requests :
        LET calls == req[r].produced
        IN  /\ req[r].pc = "Started" => ENABLED MwServe(r)
            /\ wire[r].received = calls
            /\ wire[r].headers = DeliveredHeaders(calls)
            /\ wire[r].writes = DeliveredBody(calls)
            /\ wire[r].code = IF DeliveredCode(calls) = 0 /\ wire[r].done /\ ~req[r].panicked
                              THEN StatusOK ELSE DeliveredCode(calls)

\* With a provider installed, a handler set a header entry and wrote 404, and
\* the response went out with both.
NotFoundWithHeaderDelivered ==
    \E r \in Requests :
        /\ globalTP # 0
        /\ wire[r].done
        /\ req[r].produced = <<HeaderCall, WriteHeaderCall(404)>>
        /\ wire[r].code = 404
        /\ wire[r].headers = 1

\* The WriteHeader codes of a handler's calls.
WrittenCodes(calls) == {calls[i].code : i \in {j \in 1..Len(calls) : calls[j].op = "WriteHeader"}}

\* C12: when the handler has returned and the span is ended, its
\* http.status_code is 200 if the handler never called WriteHeader, and c if
\* the handler wrote the status code c.
StatusCaptured ==
    \A r \in Requests :
        (req[r].pc = "Completed" /\ ~req[r].panicked) =>
            /\ req[r].span.ends = 1
            /\ "http.status_code" \in req[r].span.attrs
            /\ WrittenCodes(req[r].produced) = {} => req[r].span.statusCode = StatusOK
            /\ \A c \in StatusCodes :
                   WrittenCodes(req[r].produced) = {c} => req[r].span.statusCode = c

\* A handler wrote 404 and nothing else, and its span is ended.
NotFoundCaptured ==
    \E r \in Requests :
        /\ req[r].pc = "Completed"
        /\ req[r].produced = <<WriteHeaderCall(404)>>
        /\ req[r].span.ends = 1
        /\ req[r].span.statusCode = 404

\* A NewProvider call that got past resource resolution with a protocol that
\* is neither "http" nor "grpc".
UnknownProtocolCall(p) ==
    /\ PastResource(p)
    /\ call[p].arg.Config.OTLPExporterProtocol \notin {"http", "grpc"}

UnknownSamplerFallsBackToDefaultRatio ==
    \A p \in Callers :
        ( /\ PastResource(p)
          /\ call[p].arg.Config.SamplingType \notin ValidSamplingTypes
          /\ call[p].arg.Config.OTLPExporterProtocol \in {"http", "grpc"}
          /\ call[p].err # InitializationError("exporter", "external") ) =>
            /\ call[p].err = NoErr
            /\ call[p].built.sampler = <<"ParentBased(TraceIDRatioBased)", DefaultSamplingRatio>>

ConstructorNames ==
    {"NewProvider", "NewDefaultProvider", "SetupTracing", "SetupTracingWithDefaults",
     "SetupCustomTracing"}

\* C18 as stated: every call of NewProvider, NewDefaultProvider, SetupTracing,
\* SetupTracingWithDefaults or SetupCustomTracing ends by returning, with no
\* error, a ConfigError or an InitializationError, and never by a panic, a nil
\* ProviderConfig and a ProviderConfig with a nil Config included.
ConstructorsNeverPanic ==
    \A p \in Callers :
        call[p].fn \in ConstructorNames =>
            call[p].err.kind \in {"nil", "ConfigError", "InitializationError"}

\* An environment in which every variable that is set holds a value of its
\* kind: a number, a duration, a boolean, a sampling type.
WellFormedEnv(env) ==
    /\ \A k \in {EnvBatchTimeout, EnvExportTimeout} : env[k] = "" \/ env[k] \in DOMAIN DurationLiterals
    /\ \A k \in {EnvMaxExportBatchSize, EnvMaxQueueSize} : env[k] = "" \/ env[k] \in DOMAIN IntLiterals
    /\ env[EnvOTLPExporterInsecure] = "" \/ env[EnvOTLPExporterInsecure] \in DOMAIN BoolLiterals
    /\ env[EnvSamplingRatio] = "" \/ env[EnvSamplingRatio] \in DOMAIN FloatLiterals
    /\ env[EnvSamplingType] = "" \/ env[EnvSamplingType] \in ValidSamplingTypes

\* The environment's value for a variable that is set, else the default.
EnvOrDefault(env, key, value, default) == IF env[key] = "" THEN default ELSE value

\* C19 as stated, for SetupTracing, which takes the service name and
\* optionally the version as arguments and everything else from the
\* environment: each value the provider is built with is the argument when
\* one was given, otherwise the environment variable's value when it is set,
\* otherwise the built-in default.
BuiltByPrecedence ==
    \A p \in Callers :
        ( /\ call[p].fn = "SetupTracing"
          /\ call[p].err = NoErr
          /\ WellFormedEnv(call[p].in.env) ) =>
            LET env == call[p].in.env
                b == call[p].built
                type == EnvOrDefault(env, EnvSamplingType, env[EnvSamplingType], DefaultSamplingType)
            IN  /\ b.attrs.ServiceName = call[p].in.name
                /\ b.attrs.ServiceVersion =
                       IF Len(call[p].in.version) > 0 THEN call[p].in.version[1]
                       ELSE EnvOrDefault(env, EnvServiceVersion, env[EnvServiceVersion],
                                         DefaultServiceVersion)
                /\ b.attrs.Environment =
                       EnvOrDefault(env, EnvEnvironment, env[EnvEnvironment], DefaultEnvironment)
                /\ b.attrs.InstanceID =
                       EnvOrDefault(env, EnvInstanceID, env[EnvInstanceID], "generated")
                /\ b.opts.endpoint =
                       EnvOrDefault(env, EnvOTLPExporterEndpoint, env[EnvOTLPExporterEndpoint],
                                    DefaultOTLPExporterEndpoint)
                /\ b.opts.insecure =
                       EnvOrDefault(env, EnvOTLPExporterInsecure,
                                    BoolLiterals[env[EnvOTLPExporterInsecure]], FALSE)
                /\ b.exporter =
                       EnvOrDefault(env, EnvOTLPExporterProtocol, env[EnvOTLPExporterProtocol],
                                    DefaultOTLPExporterProtocol)
                /\ type = "always_on" => b.sampler[1] = "AlwaysSample"
                /\ type = "always_off" => b.sampler[1] = "NeverSample"
                /\ type = "probabilistic" =>
                       b.sampler = <<"ParentBased(TraceIDRatioBased)",
                                     EnvOrDefault(env, EnvSamplingRatio,
                                                  FloatLiterals[env[EnvSamplingRatio]],
                                                  DefaultSamplingRatio)>>
                /\ b.bsp.BatchTimeout =
                       EnvOrDefault(env, EnvBatchTimeout, DurationLiterals[env[EnvBatchTimeout]],
                                    DefaultBatchTimeout)
                /\ b.bsp.ExportTimeout =
                       EnvOrDefault(env, EnvExportTimeout, DurationLiterals[env[EnvExportTimeout]],
                                    DefaultExportTimeout)
                /\ b.bsp.MaxExportBatchSize =
                       EnvOrDefault(env, EnvMaxExportBatchSize,
                                    IntLiterals[env[EnvMaxExportBatchSize]],
                                    DefaultMaxExportBatchSize)
                /\ b.bsp.MaxQueueSize =
                       EnvOrDefault(env, EnvMaxQueueSize, IntLiterals[env[EnvMaxQueueSize]],
                                    DefaultMaxQueueSize)

\* The validated fields in the order of the claim, and each field's constraint.
\* A ratio is out of range when it is below 0 or above 1; NaN is neither.
FieldOrder ==
    <<"ServiceName", "ServiceVersion", "Environment", "OTLPExporterEndpoint",
      "SamplingRatio", "SamplingType", "OTLPExporterProtocol">>

FieldConstraints(c) ==
    << c.ServiceName # "",
       c.ServiceVersion # "",
       c.Environment \in {"development", "staging", "production"},
       c.OTLPExporterEndpoint # "",
       c.SamplingRatio \in (0..100) \cup {NaN},
       c.SamplingType \in {"probabilistic", "always_on", "always_off"},
       c.OTLPExporterProtocol \in {"grpc", "http"} >>

ViolatedFields(c) == {i \in 1..Len(FieldOrder) : ~FieldConstraints(c)[i]}

OrDefault(value, zero, default) == IF value = zero THEN default ELSE value

\* A NewProvider call that did not end in a failure of the exporter's constructor.
NoExternalFailure(p) ==
    /\ call[p].fn = "NewProvider"
    /\ call[p].err.cause # "external"

\* The batch processor was built with each batch field of cfg, a zero field
\* replaced by its default.
BatchBuiltFrom(b, cfg) ==
    /\ b.bspBuilt
    /\ b.bsp.BatchTimeout = OrDefault(cfg.BatchTimeout, 0, DefaultBatchTimeout)
    /\ b.bsp.ExportTimeout = OrDefault(cfg.ExportTimeout, 0, DefaultExportTimeout)
    /\ b.bsp.MaxExportBatchSize = OrDefault(cfg.MaxExportBatchSize, 0, DefaultMaxExportBatchSize)
    /\ b.bsp.MaxQueueSize = OrDefault(cfg.MaxQueueSize, 0, DefaultMaxQueueSize)

NoProviderSpanReachesNoProcessor ==
    \A r \in Requests :
        (req[r].span.started /\ req[r].span.installsAtStart = 0) =>
            /\ req[r].span.provider = 0
            /\ req[r].pc = "Started" => ENABLED MwServe(r)
            /\ req[r].pc \notin {"NotStarted", "Started"} => req[r].handlerCalls = 1
            /\ wire[r].received = req[r].produced
            /\ wire[r].done =>
                   wire[r].code = IF DeliveredCode(req[r].produced) = 0 THEN StatusOK
                                  ELSE DeliveredCode(req[r].produced)

\* A request started before any install has been answered with the handler's
\* 404 and its span is ended, while a provider had been built meanwhile.
NotFoundDeliveredWithoutProvider ==
    \E r \in Requests :
        /\ req[r].span.installsAtStart = 0
        /\ req[r].span.provider = 0
        /\ req[r].span.ends = 1
        /\ wire[r].done
        /\ wire[r].code = 404
        /\ Len(providers) > 0

\* The helpers the nil-safety contract names; AddTimedEvent is not among them.
NilSafeHelpers == {"AddAttributes", "AddEvent", "RecordError", "EndSpan", "RecordErrorEnhanced"}

\* C25: AddAttributes, AddEvent, RecordError and EndSpan called with a nil
\* span, and RecordError and RecordErrorEnhanced called with a nil error,
\* return without a panic and without calling any method on any span.
NilArgumentsAreNoOps ==
    \A p \in Callers :
        ( /\ call[p].fn \in NilSafeHelpers
          /\ \/ call[p].in.spanNil
             \/ call[p].fn \in {"RecordError", "RecordErrorEnhanced"} /\ call[p].in.errNil ) =>
            /\ call[p].pc = "idle"
            /\ call[p].err = NoErr
            /\ ~call[p].in.changed

\* RecordError was called with a nil error on a span that earlier calls had
\* already changed, and left it alone.
NilErrorOnLiveSpanIgnored ==
    \E p \in Callers :
        /\ call[p].fn = "RecordError"
        /\ ~call[p].in.spanNil
        /\ call[p].in.errNil
        /\ call[p].err = NoErr
        /\ ~call[p].in.changed
        /\ req[1].span.calls = <<"SetAttributes", "AddEvent">>

\* C26 as stated: when a request whose handler returned has been answered,
\* the http.status_code attribute of its ended span is the status code that
\* went out to the client, whatever sequence of WriteHeader and Write calls
\* the handler made.
StatusAttributeIsDeliveredStatus ==
    \A r \in Requests :
        (req[r].pc = "Completed" /\ ~req[r].panicked /\ wire[r].done) =>
            /\ "http.status_code" \in req[r].span.attrs
            /\ req[r].span.statusCode = wire[r].code

\* C27 as stated: a span started after the ambient provider was shut down and
\* a constructor called after that shutdown has returned a provider that is
\* still running, is a span of a provider that has not been shut down.
SpansAfterReSetupReachRunningProvider ==
    \A r \in Requests :
        (req[r].span.started /\ req[r].span.reSetup) =>
            /\ req[r].span.provider # 0
            /\ ~req[r].span.providerShutDown

\* C29 as stated: every span the middleware has ended carries the
\* http.status_code attribute, whether the handler returned or panicked.
EndedSpanHasStatusAttribute ==
    \A r \in Requests :
        req[r].span.ends > 0 => "http.status_code" \in req[r].span.attrs

\* C30 as stated: whenever the factory has constructed a batch processor, the
\* MaxExportBatchSize and MaxQueueSize it passed to the constructor are
\* positive, whatever the ProviderConfig held.
BatchProcessorBuiltWithPositiveSizes ==
    \A p \in Callers :
        call[p].built.bspBuilt =>
            /\ call[p].built.bsp.MaxExportBatchSize > 0
            /\ call[p].built.bsp.MaxQueueSize > 0

====
